---------------------------- MODULE Spec2Model ----------------------------
(***************************************************************************)
(* HookSocket (src/worker.js): a Cloudflare Worker that routes every       *)
(* request to a WebSocketRoom Durable Object named after the request path. *)
(* A room keeps a Map of accepted WebSockets, forwards client messages to  *)
(* an HTTP endpoint, and broadcasts HTTP POST bodies and forward replies   *)
(* to the sockets of its Map.                                              *)
(*                                                                         *)
(* Strings that the code inspects (paths, prefixes) are sequences of       *)
(* one-character strings.  Message bodies are sequences of lexical tokens  *)
(* [k, v]: k = "p" punctuation, "s" a quoted JSON string literal with      *)
(* content v, "w" white space, "n" the literal null, "raw" other text.     *)
(***************************************************************************)
EXTENDS Integers, Sequences, FiniteSets, TLC

(***************************************************************************)
(* Bounds of the model.                                                    *)
(***************************************************************************)
\* events from outside in one run: HTTP requests (upgrades included), client
\* messages, elapsed 30-second periods and close events
MaxEvents == 4

(***************************************************************************)
(* Strings.                                                                *)
(***************************************************************************)
Slash == <<"/">>
WebStr == <<"w", "e", "b">>
DEFAULT_WS_PATH == Slash \o WebStr \o <<"s", "o", "c", "k", "e", "t">>
DEFAULT_WH_PATH == Slash \o WebStr \o <<"h", "o", "o", "k">>
SuffixA == Slash \o <<"a">>
SuffixB == Slash \o <<"b">>
Suffixes == {SuffixA, SuffixB}

\* String.prototype.startsWith
StartsWith(s, p) == Len(p) <= Len(s) /\ SubSeq(s, 1, Len(p)) = p

\* String.prototype.indexOf, 1-based; 0 when pat does not occur in s
IndexOf(s, pat) ==
    LET hits == {i \in 1..(Len(s) + 1) :
                    i + Len(pat) - 1 <= Len(s) /\ SubSeq(s, i, i + Len(pat) - 1) = pat}
    IN IF hits = {} THEN 0 ELSE CHOOSE i \in hits : \A j \in hits : i <= j

\* String.prototype.replace with a string pattern: the first occurrence only
StrReplace(s, pat, rep) ==
    LET i == IndexOf(s, pat)
    IN IF i = 0 THEN s
       ELSE SubSeq(s, 1, i - 1) \o rep \o SubSeq(s, i + Len(pat), Len(s))


(***************************************************************************)
(* Configuration (env).  A variable of env is either absent (set = FALSE)  *)
(* or a string; the destructuring defaults of the code apply to absent     *)
(* variables only.                                                         *)
(***************************************************************************)
Unset == [set |-> FALSE, v |-> <<>>]
Value(s) == [set |-> TRUE, v |-> s]
ApiHost == <<"a", "p", "i">>
RequestHost == <<"h", "s">>

EnvDefault == [WS_PATH |-> Unset, WH_PATH |-> Unset, WH_HOST |-> Unset]
\* WH_PATH is a leading part of the socket prefix
EnvShortHook == [WS_PATH |-> Unset, WH_PATH |-> Value(Slash \o WebStr),
                 WH_HOST |-> Value(ApiHost)]
\* WS_PATH is the empty string
EnvNoPrefix == [WS_PATH |-> Value(<<>>), WH_PATH |-> Unset, WH_HOST |-> Value(<<>>)]
Envs == {EnvDefault, EnvShortHook, EnvNoPrefix}

\* const {X = DEFAULT} = env
OrDefault(var, default) == IF var.set THEN var.v ELSE default

WsPathOf(e) == OrDefault(e.WS_PATH, DEFAULT_WS_PATH)
WhPathOf(e) == OrDefault(e.WH_PATH, DEFAULT_WH_PATH)

\* env.WH_HOST || url.host : an absent or empty WH_HOST is falsy
ApiHostOf(e) == IF e.WH_HOST.set /\ e.WH_HOST.v # <<>> THEN e.WH_HOST.v ELSE RequestHost

(***************************************************************************)
(* WebSocketRoom.translatePath.  ok = FALSE stands for the thrown Error.   *)
(***************************************************************************)
Thrown == [ok |-> FALSE, path |-> <<>>]
Returned(p) == [ok |-> TRUE, path |-> p]

translatePath(e, path) ==
    IF StartsWith(path, WhPathOf(e))
    THEN Returned(StrReplace(path, WhPathOf(e), WsPathOf(e)))
    ELSE Thrown

(***************************************************************************)
(* Bodies and JSON.                                                        *)
(***************************************************************************)
Tok(k, v) == [k |-> k, v |-> v]
LBrace == Tok("p", "{")
RBrace == Tok("p", "}")
Colon == Tok("p", ":")
Comma == Tok("p", ",")
Space == Tok("w", " ")
Lit(s) == Tok("s", s)

Sentinel == "Workflow was started"

\* JS values a body can parse to: an object of string fields (in insertion
\* order), a string, or null
Obj(fields) == [t |-> "obj", fields |-> fields, s |-> ""]
Str(s) == [t |-> "str", fields |-> <<>>, s |-> s]
Null == [t |-> "null", fields |-> <<>>, s |-> ""]

\* obj[key] = val: an existing key keeps its place and takes the new value
SetField(fields, key, val) ==
    IF \E i \in 1..Len(fields) : fields[i].key = key
    THEN [i \in 1..Len(fields) |->
            IF fields[i].key = key THEN [key |-> key, val |-> val] ELSE fields[i]]
    ELSE Append(fields, [key |-> key, val |-> val])

RECURSIVE StripSpace(_)
StripSpace(text) ==
    IF text = <<>> THEN <<>>
    ELSE IF Head(text).k = "w" THEN StripSpace(Tail(text))
         ELSE <<Head(text)>> \o StripSpace(Tail(text))

\* the members  "k" : "v" , "k" : "v" ...  between the braces of an object
RECURSIVE ParseMembers(_, _)
ParseMembers(toks, fields) ==
    IF Len(toks) < 3 \/ toks[1].k # "s" \/ toks[2] # Colon \/ toks[3].k # "s"
    THEN [ok |-> FALSE, val |-> Null]
    ELSE LET got == SetField(fields, toks[1].v, toks[3].v)
         IN IF Len(toks) = 3 THEN [ok |-> TRUE, val |-> Obj(got)]
            ELSE IF toks[4] # Comma THEN [ok |-> FALSE, val |-> Null]
                 ELSE ParseMembers(SubSeq(toks, 5, Len(toks)), got)

\* Body.json(): ok = FALSE stands for the rejection with a SyntaxError
JSONParse(text) ==
    LET toks == StripSpace(text)
    IN IF Len(toks) = 1 /\ toks[1].k = "n" THEN [ok |-> TRUE, val |-> Null]
       ELSE IF Len(toks) = 1 /\ toks[1].k = "s" THEN [ok |-> TRUE, val |-> Str(toks[1].v)]
       ELSE IF Len(toks) >= 2 /\ toks[1] = LBrace /\ toks[Len(toks)] = RBrace
            THEN IF Len(toks) = 2 THEN [ok |-> TRUE, val |-> Obj(<<>>)]
                 ELSE ParseMembers(SubSeq(toks, 2, Len(toks) - 1), <<>>)
            ELSE [ok |-> FALSE, val |-> Null]

RECURSIVE StringifyMembers(_)
StringifyMembers(fields) ==
    IF fields = <<>> THEN <<>>
    ELSE <<Lit(Head(fields).key), Colon, Lit(Head(fields).val)>>
         \o (IF Len(fields) > 1 THEN <<Comma>> ELSE <<>>)
         \o StringifyMembers(Tail(fields))

\* JSON.stringify of a parsed value
JSONStringify(val) ==
    IF val.t = "null" THEN <<Tok("n", "null")>>
    ELSE IF val.t = "str" THEN <<Lit(val.s)>>
    ELSE <<LBrace>> \o StringifyMembers(val.fields) \o <<RBrace>>

\* variant of IsSentinel: the skip is never taken
IsSentinelOff(val) == FALSE

\* parsedRes?.message === 'Workflow was started'
IsSentinel(val) ==
    /\ val.t = "obj"
    /\ \E i \in 1..Len(val.fields) :
          val.fields[i].key = "message" /\ val.fields[i].val = Sentinel

\* contentType.includes('application/json'); a content type is the list of
\* its ;-separated parts, <<>> when the header is absent
JsonType == "application/json"
IsJson(ctype) == \E i \in 1..Len(ctype) : ctype[i] = JsonType

Payload(ctype, body) == [ctype |-> ctype, body |-> body]
HelloMembers == <<Lit("text"), Colon, Lit("hello")>>
SentinelMembers == <<Lit("message"), Colon, Lit(Sentinel)>>
JsonHello == Payload(<<JsonType, "charset=utf-8">>,
                     <<LBrace, Space>> \o HelloMembers \o <<Space, RBrace>>)
JsonSentinel == Payload(<<JsonType>>, <<LBrace>> \o SentinelMembers \o <<RBrace>>)
JsonBroken == Payload(<<JsonType>>, <<LBrace, Lit("text")>>)
\* the sentinel's text, not declared as JSON
TextSentinel == Payload(<<"text/plain">>, <<LBrace>> \o SentinelMembers \o <<RBrace>>)
NoPayload == Payload(<<>>, <<>>)
Payloads == {JsonHello, JsonSentinel, JsonBroken, TextSentinel}

\* what a client can send over its socket
ClientData == {"hi"}

(***************************************************************************)
(* Requests.  A room is a Durable Object named after the request path.     *)
(***************************************************************************)
PathA == DEFAULT_WS_PATH \o SuffixA
PathB == DEFAULT_WS_PATH \o SuffixB
HookPathA == DEFAULT_WH_PATH \o SuffixA
Paths == {PathA, PathB, HookPathA}
Methods == {"OPTIONS", "GET", "POST"}
\* a request: its method, whether it carries Upgrade: websocket, and its path.
\* Its body is drawn when handleResponse reads it.
Requests == [method : Methods, upgrade : BOOLEAN, path : Paths]

SocketIds == 1..MaxEvents
NoResponse == [method |-> "", path |-> <<>>, status |-> 0, cors |-> FALSE]
Response(request, status, cors) ==
    [method |-> request.method, path |-> request.path, status |-> status, cors |-> cors]
\* no handleResponse run
NotHandled == [kind |-> "", origin |-> <<>>, call |-> 0, payload |-> NoPayload,
               ran |-> FALSE, failing |-> {}, message |-> <<>>, before |-> <<>>,
               attempts |-> <<>>, sent |-> <<>>, deadConnections |-> <<>>, prior |-> {},
               arrival |-> <<>>]

VARIABLES
    env,          \* the configuration, fixed for the run
    connections,  \* room -> the room's Map, as the sequence of its keys in insertion order
    admitted,     \* number of sockets accepted so far; socket ids are 1..admitted
    connPath,     \* socket id -> the path of its upgrade request (captured by its listeners)
    intervals,    \* socket ids whose setInterval timer has not been cleared
    closed,       \* socket ids whose close event has been dispatched
    ticks,        \* socket id -> 30-second periods elapsed since its admission
    probes,       \* socket id -> number of send('ping') calls made on it
    probeFailed,  \* socket ids on which a send('ping') has thrown
    received,     \* the client messages received, in order
    outbound,     \* the outbound fetch calls issued, in order
    inflight,     \* indexes of outbound calls not yet settled
    pending,      \* handleResponse invocations awaiting their body, which is still
                  \* to arrive
    events,       \* number of outside events so far (see MaxEvents)
    resp,         \* the HTTP response the last step produced, NoResponse if none
    handled,      \* the handleResponse run the last step completed, NotHandled if
                  \* none: the body it read, whether its send loop ran (ran), the
                  \* sockets whose send threw (failing), the Map before the loop,
                  \* the send calls in order (attempts), those that returned (sent),
                  \* deadConnections, the ids evicted by earlier loops (prior), and
                  \* the Map when the run started (arrival)
    evicted,      \* socket ids a send loop has removed
    errors        \* what has been logged or thrown: [kind, msg]

vars == <<env, connections, admitted, connPath, intervals, closed, ticks, probes,
          probeFailed, received, outbound, inflight, pending, events, resp, handled,
          evicted, errors>>

\* groups of variables, for the UNCHANGED clauses
sockets == <<connections, admitted, connPath, intervals, closed>>
keepalive == <<ticks, probes, probeFailed>>
forwards == <<received, outbound, inflight, errors>>
broadcasts == <<pending, evicted>>

\* one more outside event, within the bound of the run
Event == events < MaxEvents /\ events' = events + 1

\* a step that answers no HTTP request, and one that completes no handleResponse
NoReply == resp' = NoResponse
NoSend == handled' = NotHandled

Range(seq) == {seq[i] : i \in 1..Len(seq)}

Init ==
    /\ env \in Envs
    /\ connections = [r \in Paths |-> <<>>]
    /\ admitted = 0
    /\ connPath = [c \in SocketIds |-> <<>>]
    /\ intervals = {}
    /\ closed = {}
    /\ ticks = [c \in SocketIds |-> 0]
    /\ probes = [c \in SocketIds |-> 0]
    /\ probeFailed = {}
    /\ received = <<>>
    /\ outbound = <<>>
    /\ inflight = {}
    /\ pending = {}
    /\ events = 0
    /\ resp = NoResponse
    /\ handled = NotHandled
    /\ evicted = {}
    /\ errors = {}

(***************************************************************************)
(* The Worker entry point: default.fetch.                                  *)
(***************************************************************************)
\* WS_PATH && !path.startsWith(WS_PATH): the request never reaches a room
InvalidPath(e, path) == WsPathOf(e) # <<>> /\ ~StartsWith(path, WsPathOf(e))

\* variant of RoomOf: every path is served by one shared room
RoomOfShared(path) == PathA

\* env.WSROOM.idFromName(path): the room that serves the request
RoomOf(path) == path

\* variant of RoomBranch: the Upgrade header is tested before the method
RoomBranchUpgradeFirst(request) ==
    IF request.upgrade THEN "upgrade"
    ELSE IF request.method = "OPTIONS" THEN "preflight"
    ELSE IF request.method = "POST" THEN "broadcast"
    ELSE "reject"

\* the branch of WebSocketRoom.fetch a request takes, in the order of its tests
RoomBranch(request) ==
    IF request.method = "OPTIONS" THEN "preflight"
    ELSE IF request.upgrade THEN "upgrade"
    ELSE IF request.method = "POST" THEN "broadcast"
    ELSE "reject"

NotFound(request) ==
    /\ InvalidPath(env, request.path)
    /\ resp' = Response(request, 404, FALSE)
    /\ NoSend
    /\ Event
    /\ UNCHANGED <<env, sockets, keepalive, forwards, broadcasts>>

Preflight(request) ==
    /\ ~InvalidPath(env, request.path)
    /\ RoomBranch(request) = "preflight"
    /\ resp' = Response(request, 204, TRUE)
    /\ NoSend
    /\ Event
    /\ UNCHANGED <<env, sockets, keepalive, forwards, broadcasts>>

MethodNotAllowed(request) ==
    /\ ~InvalidPath(env, request.path)
    /\ RoomBranch(request) = "reject"
    /\ resp' = Response(request, 405, TRUE)
    /\ NoSend
    /\ Event
    /\ UNCHANGED <<env, sockets, keepalive, forwards, broadcasts>>

(***************************************************************************)
(* Upgrade: accept the socket, store it under a fresh id, start its ping   *)
(* timer and install its message and close listeners.                      *)
(***************************************************************************)
\* variant of startPing: no timer is started
startPingOff(timers, socketId) == timers

\* startPing: setInterval(...)
startPing(timers, socketId) == timers \cup {socketId}

Upgrade(request) ==
    /\ ~InvalidPath(env, request.path)
    /\ RoomBranch(request) = "upgrade"
    /\ Event
    /\ LET socketId == admitted + 1    \* crypto.randomUUID(): an id never used before
           room == RoomOf(request.path)
       IN /\ admitted' = socketId
          /\ connections' = [connections EXCEPT ![room] = Append(@, socketId)]
          /\ intervals' = startPing(intervals, socketId)
          /\ connPath' = [connPath EXCEPT ![socketId] = request.path]
    /\ resp' = Response(request, 101, FALSE)
    /\ NoSend
    /\ UNCHANGED <<env, closed, keepalive, forwards, broadcasts>>

(***************************************************************************)
(* The message listener of a socket: translate the path captured at the    *)
(* upgrade and issue the outbound call.  A throw of translatePath leaves   *)
(* the listener before fetch is called.                                    *)
(***************************************************************************)
Call(msg, socketId, host, path, data) ==
    [msg |-> msg, conn |-> socketId, method |-> "POST", host |-> host, path |-> path,
     ctype |-> <<JsonType>>, body |-> JSONStringify(Str(data))]

\* variant of OnMessage: the newest call is issued ahead of the earlier ones
OnMessageLifo(socketId, data) ==
    /\ socketId \in 1..admitted
    /\ socketId \notin closed
    /\ Event
    /\ received' = Append(received, [conn |-> socketId, data |-> data])
    /\ LET apiHost == ApiHostOf(env)
           apiPath == translatePath(env, connPath[socketId])
           msg == Len(received) + 1
       IN IF apiPath.ok
          THEN /\ outbound' = <<Call(msg, socketId, apiHost, apiPath.path, data)>>
                                  \o outbound
               /\ inflight' = {call + 1 : call \in inflight} \cup {1}
               /\ errors' = errors
          ELSE /\ errors' = errors \cup {[kind |-> "uncaught", msg |-> msg]}
               /\ UNCHANGED <<outbound, inflight>>
    /\ NoReply /\ NoSend
    /\ UNCHANGED <<env, sockets, keepalive, broadcasts>>

OnMessage(socketId, data) ==
    /\ socketId \in 1..admitted
    /\ socketId \notin closed
    /\ Event
    /\ received' = Append(received, [conn |-> socketId, data |-> data])
    /\ LET apiHost == ApiHostOf(env)
           apiPath == translatePath(env, connPath[socketId])
           msg == Len(received) + 1
       IN IF apiPath.ok
          THEN /\ outbound' = Append(outbound,
                                     Call(msg, socketId, apiHost, apiPath.path, data))
               /\ inflight' = inflight \cup {Len(outbound) + 1}
               /\ errors' = errors
          ELSE /\ errors' = errors \cup {[kind |-> "uncaught", msg |-> msg]}
               /\ UNCHANGED <<outbound, inflight>>
    /\ NoReply /\ NoSend
    /\ UNCHANGED <<env, sockets, keepalive, broadcasts>>

\* the outbound call fails at transport level: .catch logs it
ForwardFailed(call) ==
    /\ call \in inflight
    /\ inflight' = inflight \ {call}
    /\ errors' = errors \cup {[kind |-> "forward", msg |-> outbound[call].msg]}
    /\ NoReply /\ NoSend
    /\ UNCHANGED <<env, sockets, keepalive, broadcasts, received, outbound, events>>

\* a handleResponse invocation suspended at its await.  arrival records the Map
\* of the room when the invocation started, which the code does not keep.
Job(kind, room, call, request) ==
    [kind |-> kind, room |-> room, call |-> call,
     method |-> request.method, path |-> request.path,
     arrival |-> connections[room]]

\* the outbound call is answered: .then hands the response to handleResponse of
\* the room that issued it, which starts to read the body
ForwardReplied(call) ==
    /\ call \in inflight
    /\ inflight' = inflight \ {call}
    /\ pending' = pending \cup
          {Job("reply", RoomOf(connPath[outbound[call].conn]), call, NoResponse)}
    /\ NoReply /\ NoSend
    /\ UNCHANGED <<env, sockets, keepalive, received, outbound, errors, evicted, events>>

\* variant of BroadcastRequest: the caller is answered 200 before the body is
\* read
BroadcastRequestEarly(request) ==
    /\ ~InvalidPath(env, request.path)
    /\ RoomBranch(request) = "broadcast"
    /\ Event
    /\ pending' = pending \cup {Job("post", RoomOf(request.path), 0, request)}
    /\ resp' = Response(request, 200, TRUE)
    /\ NoSend
    /\ UNCHANGED <<env, sockets, keepalive, forwards, evicted>>

\* a POST reaches its room: handleResponse(request) starts to read the body
BroadcastRequest(request) ==
    /\ ~InvalidPath(env, request.path)
    /\ RoomBranch(request) = "broadcast"
    /\ Event
    /\ pending' = pending \cup {Job("post", RoomOf(request.path), 0, request)}
    /\ NoReply /\ NoSend
    /\ UNCHANGED <<env, sockets, keepalive, forwards, evicted>>

(***************************************************************************)
(* handleResponse, from the point where the body has been read.            *)
(***************************************************************************)
\* what the body turns into: a throw, a skip, or the message to send
Interpret(payload) ==
    IF IsJson(payload.ctype)
    THEN LET parsedRes == JSONParse(payload.body)
         IN IF ~parsedRes.ok THEN [threw |-> TRUE, skip |-> FALSE, message |-> <<>>]
            ELSE IF IsSentinel(parsedRes.val)
                 THEN [threw |-> FALSE, skip |-> TRUE, message |-> <<>>]
                 ELSE [threw |-> FALSE, skip |-> FALSE,
                       message |-> JSONStringify(parsedRes.val)]
    ELSE [threw |-> FALSE, skip |-> FALSE, message |-> payload.body]

\* variant of MapDelete: deleting an absent key disturbs the Map (its last entry
\* goes)
MapDeleteOrLast(map, socketId) ==
    IF \E i \in 1..Len(map) : map[i] = socketId
    THEN SelectSeq(map, LAMBDA id : id # socketId)
    ELSE SubSeq(map, 1, Len(map) - 1)

\* Map.delete
MapDelete(map, socketId) == SelectSeq(map, LAMBDA id : id # socketId)

\* variant of SendLoop: the loop is left after its first entry
SendLoopFirstOnly(entries, failing, acc) ==
    IF entries = <<>> THEN acc
    ELSE LET socketId == Head(entries)
             tried == [acc EXCEPT !.attempts = Append(@, socketId)]
         IN IF socketId \in failing
            THEN [tried EXCEPT !.deadConnections = Append(@, socketId)]
            ELSE [tried EXCEPT !.sent = Append(@, socketId)]

\* variant of SendLoop: a send that throws ends the loop
RECURSIVE SendLoopBreaks(_, _, _)
SendLoopBreaks(entries, failing, acc) ==
    IF entries = <<>> THEN acc
    ELSE LET socketId == Head(entries)
             tried == [acc EXCEPT !.attempts = Append(@, socketId)]
         IN IF socketId \in failing
            THEN [tried EXCEPT !.deadConnections = Append(@, socketId)]
            ELSE SendLoopBreaks(Tail(entries), failing,
                                [tried EXCEPT !.sent = Append(@, socketId)])

\* for (const [socketId, socket] of this.connections.entries()): send, and on a
\* throw push the id to deadConnections
RECURSIVE SendLoop(_, _, _)
SendLoop(entries, failing, acc) ==
    IF entries = <<>> THEN acc
    ELSE LET socketId == Head(entries)
             tried == [acc EXCEPT !.attempts = Append(@, socketId)]
         IN SendLoop(Tail(entries), failing,
                     IF socketId \in failing
                     THEN [tried EXCEPT !.deadConnections = Append(@, socketId)]
                     ELSE [tried EXCEPT !.sent = Append(@, socketId)])

\* deadConnections.forEach((id) => this.connections.delete(id))
RECURSIVE CleanUp(_, _)
CleanUp(map, deadConnections) ==
    IF deadConnections = <<>> THEN map
    ELSE CleanUp(MapDelete(map, Head(deadConnections)), Tail(deadConnections))

\* the response of the POST branch once handleResponse has returned
Responded(job) == [method |-> job.method, path |-> job.path, status |-> 200, cors |-> TRUE]
\* variant of Failed: the throw is swallowed and the caller gets 200
FailedSwallowed(job) ==
    [method |-> job.method, path |-> job.path, status |-> 200, cors |-> TRUE]

\* handleResponse threw: fetch rejects and the caller gets the platform's error
Failed(job) == [method |-> job.method, path |-> job.path, status |-> 500, cors |-> FALSE]

\* the path of the request, or of the socket, that the job's body answers
Origin(job) == IF job.kind = "post" THEN job.path ELSE connPath[outbound[job.call].conn]

\* handleResponse returned or threw before its send loop
Skipped(job, payload) ==
    [NotHandled EXCEPT !.kind = job.kind, !.origin = Origin(job), !.call = job.call,
                       !.payload = payload, !.prior = evicted,
                       !.arrival = job.arrival]

\* variant of Broadcast: the loop runs over the Map as it was when the
\* invocation started
BroadcastCached(job, payload, message, failing) ==
    LET before == job.arrival
        run == SendLoop(before, failing,
                        [attempts |-> <<>>, sent |-> <<>>, deadConnections |-> <<>>])
    IN /\ connections' = [connections EXCEPT
                             ![job.room] = CleanUp(@, run.deadConnections)]
       /\ handled' = [Skipped(job, payload) EXCEPT
                         !.ran = TRUE, !.failing = failing, !.message = message,
                         !.before = before, !.attempts = run.attempts, !.sent = run.sent,
                         !.deadConnections = run.deadConnections]
       /\ evicted' = evicted \cup Range(run.deadConnections)

Broadcast(job, payload, message, failing) ==
    LET before == connections[job.room]
        run == SendLoop(before, failing,
                        [attempts |-> <<>>, sent |-> <<>>, deadConnections |-> <<>>])
    IN /\ connections' = [connections EXCEPT
                             ![job.room] = CleanUp(@, run.deadConnections)]
       /\ handled' = [Skipped(job, payload) EXCEPT
                         !.ran = TRUE, !.failing = failing, !.message = message,
                         !.before = before, !.attempts = run.attempts, !.sent = run.sent,
                         !.deadConnections = run.deadConnections]
       /\ evicted' = evicted \cup Range(run.deadConnections)

BodyRead(job, payload) ==
    /\ job \in pending
    /\ pending' = pending \ {job}
    /\ LET res == Interpret(payload)
       IN /\ IF res.threw \/ res.skip
             THEN /\ handled' = Skipped(job, payload)
                  /\ UNCHANGED <<connections, evicted>>
             ELSE \E failing \in SUBSET Range(connections[job.room]) :
                     Broadcast(job, payload, res.message, failing)
          /\ resp' = IF job.kind # "post" THEN NoResponse
                     ELSE IF res.threw THEN Failed(job) ELSE Responded(job)
          /\ errors' = IF job.kind = "reply" /\ res.threw
                       THEN errors \cup {[kind |-> "forward", msg |-> outbound[job.call].msg]}
                       ELSE errors
    /\ UNCHANGED <<env, admitted, connPath, intervals, closed, keepalive, received,
                   outbound, inflight, events>>

(***************************************************************************)
(* Keepalive and close.                                                    *)
(***************************************************************************)
\* variant of Tick: a ping that throws deletes the socket and leaves the timer set
TickKeepsTimer(socketId) ==
    /\ socketId \in 1..admitted
    /\ Event
    /\ ticks' = [ticks EXCEPT ![socketId] = @ + 1]
    /\ IF socketId \in intervals
       THEN /\ probes' = [probes EXCEPT ![socketId] = @ + 1]
            /\ \E ok \in BOOLEAN :
                  IF ok
                  THEN UNCHANGED <<intervals, connections, probeFailed>>
                  ELSE /\ probeFailed' = probeFailed \cup {socketId}
                       /\ intervals' = intervals
                       /\ connections' = [connections EXCEPT
                             ![RoomOf(connPath[socketId])] = MapDelete(@, socketId)]
       ELSE UNCHANGED <<probes, intervals, connections, probeFailed>>
    /\ NoReply /\ NoSend
    /\ UNCHANGED <<env, admitted, connPath, closed, forwards, broadcasts>>

\* thirty seconds pass for a socket; the interval callback runs if its timer is
\* set: it sends 'ping', and on a throw clears the timer and deletes the socket
Tick(socketId) ==
    /\ socketId \in 1..admitted
    /\ Event
    /\ ticks' = [ticks EXCEPT ![socketId] = @ + 1]
    /\ IF socketId \in intervals
       THEN /\ probes' = [probes EXCEPT ![socketId] = @ + 1]
            /\ \E ok \in BOOLEAN :
                  IF ok
                  THEN UNCHANGED <<intervals, connections, probeFailed>>
                  ELSE /\ probeFailed' = probeFailed \cup {socketId}
                       /\ intervals' = intervals \ {socketId}
                       /\ connections' = [connections EXCEPT
                             ![RoomOf(connPath[socketId])] = MapDelete(@, socketId)]
       ELSE UNCHANGED <<probes, intervals, connections, probeFailed>>
    /\ NoReply /\ NoSend
    /\ UNCHANGED <<env, admitted, connPath, closed, forwards, broadcasts>>

\* variant of OnClose: the listener of startPing is missing, the timer stays set
OnCloseKeepsTimer(socketId) ==
    /\ socketId \in 1..admitted
    /\ socketId \notin closed
    /\ Event
    /\ closed' = closed \cup {socketId}
    /\ connections' = [connections EXCEPT
                          ![RoomOf(connPath[socketId])] = MapDelete(@, socketId)]
    /\ NoReply /\ NoSend
    /\ UNCHANGED <<env, admitted, connPath, intervals, keepalive, forwards, broadcasts>>

\* variant of OnClose: the forwards the socket has in flight are dropped with it
OnCloseCancels(socketId) ==
    /\ socketId \in 1..admitted
    /\ socketId \notin closed
    /\ Event
    /\ closed' = closed \cup {socketId}
    /\ intervals' = intervals \ {socketId}
    /\ connections' = [connections EXCEPT
                          ![RoomOf(connPath[socketId])] = MapDelete(@, socketId)]
    /\ inflight' = {call \in inflight : outbound[call].conn # socketId}
    /\ pending' = {job \in pending :
                      job.kind = "post" \/ outbound[job.call].conn # socketId}
    /\ NoReply /\ NoSend
    /\ UNCHANGED <<env, admitted, connPath, keepalive, received, outbound, errors,
                   evicted>>

\* the close event of a socket: the listener of startPing, then the listener of fetch
OnClose(socketId) ==
    /\ socketId \in 1..admitted
    /\ socketId \notin closed
    /\ Event
    /\ closed' = closed \cup {socketId}
    /\ intervals' = intervals \ {socketId}
    /\ connections' = [connections EXCEPT
                          ![RoomOf(connPath[socketId])] = MapDelete(@, socketId)]
    /\ NoReply /\ NoSend
    /\ UNCHANGED <<env, admitted, connPath, keepalive, forwards, broadcasts>>

Next ==
    \/ \E request \in Requests :
          \/ NotFound(request)
          \/ Preflight(request)
          \/ MethodNotAllowed(request)
          \/ Upgrade(request)
          \/ BroadcastRequest(request)
    \/ \E socketId \in SocketIds :
          \/ \E data \in ClientData : OnMessage(socketId, data)
          \/ Tick(socketId)
          \/ OnClose(socketId)
    \/ \E call \in inflight :
          \/ ForwardFailed(call)
          \/ ForwardReplied(call)
    \/ \E job \in pending, payload \in Payloads : BodyRead(job, payload)

Spec == Init /\ [][Next]_vars

(***************************************************************************)
(* Properties.                                                             *)
(***************************************************************************)
Admitted == 1..admitted
Registry(room) == Range(connections[room])
Without(map, ids) == SelectSeq(map, LAMBDA id : id \notin ids)

\* the path starts with the configured socket-side prefix
HasSocketPrefix(e, path) == StartsWith(path, WsPathOf(e))
\* the path with its socket-side prefix replaced by the paired HTTP-side prefix
Paired(e, path) == WhPathOf(e) \o SubSeq(path, Len(WsPathOf(e)) + 1, Len(path))

\* a payload declared as JSON that parses
ParsedJson(payload) == IsJson(payload.ctype) /\ JSONParse(payload.body).ok
\* a payload declared as JSON that does not parse
Malformed(payload) == IsJson(payload.ctype) /\ ~JSONParse(payload.body).ok
\* a JSON payload whose message field is the sentinel
SentinelPayload(payload) ==
    /\ ParsedJson(payload)
    /\ LET val == JSONParse(payload.body).val
       IN \E i \in 1..Len(val.fields) :
             val.fields[i] = [key |-> "message", val |-> "Workflow was started"]
\* the message a payload is broadcast as: re-serialized JSON, or the text as it is
Wire(payload) ==
    IF IsJson(payload.ctype) THEN JSONStringify(JSONParse(payload.body).val)
    ELSE payload.body

\* C1: room isolation.  Every send of a broadcast goes to a socket admitted on
\* the path the broadcast comes from (the path of the POST, or the path of the
\* socket whose forward was answered), and no socket id is in the Maps of two
\* rooms.
C1_RoomIsolation ==
    /\ \A c \in Range(handled.attempts) : connPath[c] = handled.origin
    /\ \A r1, r2 \in Paths : r1 # r2 => Registry(r1) \cap Registry(r2) = {}

\* a broadcast reached a socket while another room holds a socket, which got nothing
C1_Witness ==
    /\ handled.ran
    /\ handled.sent # <<>>
    /\ \E c \in Admitted : connPath[c] # handled.origin /\ c \in Registry(connPath[c])

\* C2: every message received on a socket admitted under the socket-side prefix
\* has exactly one outbound POST, to https://{WH_HOST or request host} and the
\* path with the prefix replaced by the HTTP-side prefix, with content type
\* application/json and the JSON string encoding of the message as its body.
C2_EveryMessageForwarded ==
    \A i \in 1..Len(received) :
        LET path == connPath[received[i].conn]
            calls == {j \in 1..Len(outbound) : outbound[j].msg = i}
        IN HasSocketPrefix(env, path) =>
              /\ Cardinality(calls) = 1
              /\ \A j \in calls :
                    /\ outbound[j].method = "POST"
                    /\ outbound[j].host = ApiHostOf(env)
                    /\ outbound[j].path = Paired(env, path)
                    /\ outbound[j].ctype = <<"application/json">>
                    /\ outbound[j].body = <<Lit(received[i].data)>>

\* C3: translatePath maps socket prefix + suffix to HTTP prefix + suffix, and
\* throws for a path that does not start with the socket-side prefix.
C3_TranslatePath ==
    /\ \A suffix \in Suffixes :
          translatePath(env, WsPathOf(env) \o suffix) = Returned(WhPathOf(env) \o suffix)
    /\ \A path \in Paths : ~HasSocketPrefix(env, path) => ~translatePath(env, path).ok

\* C4: when handleResponse completes for a POST whose body is not the sentinel
\* (and, if declared JSON, parses), the send loop has called send once on every
\* socket that was in the room's Map when the loop ran, every one of them whose
\* send did not throw has the message, and the caller's response is 200.
C4_PostBroadcast ==
    [][(handled'.kind = "post" /\ ~Malformed(handled'.payload)
           /\ ~SentinelPayload(handled'.payload)) =>
          /\ HasSocketPrefix(env, handled'.origin) \/ WsPathOf(env) = <<>>
          /\ resp'.method = "POST" /\ resp'.path = handled'.origin /\ resp'.status = 200
          /\ handled'.ran
          /\ handled'.message = Wire(handled'.payload)
          /\ handled'.attempts = connections[handled'.origin]
          /\ handled'.sent = Without(connections[handled'.origin], handled'.failing)]_vars

\* a POST has been delivered to both sockets of a room and answered 200
C4_Witness ==
    /\ handled.kind = "post"
    /\ resp.status = 200
    /\ Len(handled.sent) = 2
    /\ handled.failing = {}

\* C5: a close event cancels no forward, and when handleResponse completes for
\* a reply that is not the sentinel (and parses), the send loop has called send
\* on every socket in the Map of the originating socket's room at that time,
\* and every one whose send did not throw has the message.
C5_ReplyBroadcast ==
    [][/\ closed' # closed => inflight' = inflight /\ pending' = pending
       /\ (handled'.kind = "reply" /\ ~Malformed(handled'.payload)
              /\ ~SentinelPayload(handled'.payload)) =>
             /\ handled'.origin = connPath[outbound[handled'.call].conn]
             /\ handled'.ran
             /\ handled'.message = Wire(handled'.payload)
             /\ handled'.attempts = connections[handled'.origin]
             /\ handled'.sent = Without(connections[handled'.origin], handled'.failing)]_vars

\* a reply has reached a socket after the socket that sent the message closed
C5_Witness ==
    /\ handled.kind = "reply"
    /\ handled.ran
    /\ outbound[handled.call].conn \in closed
    /\ handled.sent # <<>>

\* C6: a send loop over a Map of N sockets of which K throw calls send once on
\* each of the N in order, delivers to the N-K others, leaves the Map as it was
\* without the K, and calls send on no socket an earlier loop evicted.
C6_SendLoop ==
    handled.ran =>
       /\ handled.attempts = handled.before
       /\ \A i, j \in 1..Len(handled.attempts) :
             handled.attempts[i] = handled.attempts[j] => i = j
       /\ handled.failing \subseteq Range(handled.before)
       /\ handled.sent = Without(handled.before, handled.failing)
       /\ Range(handled.deadConnections) = handled.failing
       /\ connections[handled.origin] = Without(handled.before, handled.failing)
       /\ Range(handled.attempts) \cap handled.prior = {}

\* N = 2, K = 1: the first socket of the Map threw and the second has the message
C6_Witness ==
    /\ handled.ran
    /\ Len(handled.before) = 2
    /\ handled.failing = {handled.before[1]}
    /\ handled.sent = <<handled.before[2]>>

\* C7: when handleResponse completes for a JSON payload whose message field is
\* the sentinel, from a POST or from a reply, no send was called and the Map is
\* as before; for any other JSON payload that parses, the send loop ran with
\* the payload's re-serialization as the message.
C7_Suppression ==
    [][(handled'.kind # "" /\ ParsedJson(handled'.payload)) =>
          IF SentinelPayload(handled'.payload)
          THEN /\ ~handled'.ran
               /\ handled'.attempts = <<>>
               /\ handled'.sent = <<>>
               /\ connections' = connections
          ELSE /\ handled'.ran
               /\ handled'.message = Wire(handled'.payload)
               /\ handled'.sent = Without(connections[handled'.origin],
                                          handled'.failing)]_vars

\* the sentinel came back as a reply while the room held a socket
C7_Witness ==
    /\ handled.kind = "reply"
    /\ SentinelPayload(handled.payload)
    /\ connections[handled.origin] # <<>>

\* C8: a socket whose close event has not been dispatched and on which no ping
\* has thrown has been sent one ping per elapsed 30-second period, and no ping
\* is sent on a socket after its close event.
C8_Keepalive ==
    [][/\ \A c \in 1..admitted' :
             (c \notin closed' /\ c \notin probeFailed') => probes'[c] = ticks'[c]
       /\ \A c \in closed : probes'[c] = probes[c]]_vars

\* a socket was pinged, closed, and a period elapsed without a ping
C8_Witness ==
    \E c \in closed : probes[c] >= 1 /\ ticks[c] > probes[c]

\* C9 as claimed: every OPTIONS request, whatever its path, is answered 204 with
\* the CORS headers and changes no Map.
C9_OptionsAnyPath ==
    [][resp'.method = "OPTIONS" =>
          /\ resp'.status = 204 /\ resp'.cors
          /\ connections' = connections]_vars

\* C9 amended: an OPTIONS request changes no Map; it is answered 204 with the
\* CORS headers when WS_PATH is empty or its path starts with WS_PATH, and 404
\* without them otherwise.
C9_Options ==
    [][resp'.method = "OPTIONS" =>
          /\ connections' = connections
          /\ IF WsPathOf(env) = <<>> \/ HasSocketPrefix(env, resp'.path)
             THEN resp'.status = 204 /\ resp'.cors
             ELSE resp'.status = 404 /\ ~resp'.cors]_vars

\* a preflight was answered 204 while its room held a socket
C9_Witness ==
    /\ resp.method = "OPTIONS"
    /\ resp.status = 204
    /\ connections[resp.path] # <<>>

\* C10: when handleResponse completes for a POST whose body is declared JSON
\* and does not parse, the caller's response is an error and not 200, no send
\* was called and the Maps are as before.
C10_MalformedPost ==
    [][(handled'.kind = "post" /\ Malformed(handled'.payload)) =>
          /\ resp'.method = "POST" /\ resp'.path = handled'.origin
          /\ resp'.status >= 400
          /\ ~handled'.ran
          /\ handled'.attempts = <<>>
          /\ connections' = connections]_vars

\* a malformed POST failed while its room held a socket
C10_Witness ==
    /\ handled.kind = "post"
    /\ Malformed(handled.payload)
    /\ resp.status = 500
    /\ connections[handled.origin] # <<>>

\* the ids a room's Map has lost: by a close event, a send that threw in a send
\* loop, or a ping that threw
Removed == closed \cup evicted \cup probeFailed
\* the room a socket was admitted to
RoomOfSocket(c) == RoomOf(connPath[c])

\* C11: with the default configuration, a POST to /webhook/<roomId> is answered
\* by a send loop over the sockets connected at /websocket/<roomId>.
C11_WebhookPostDelivered ==
    [][\A suffix \in Suffixes :
          (env = EnvDefault /\ resp'.method = "POST"
              /\ resp'.path = DEFAULT_WH_PATH \o suffix) =>
             /\ handled'.ran
             /\ handled'.attempts = connections[DEFAULT_WS_PATH \o suffix]]_vars

\* C12: no timer is set for a socket id that is absent from its room's Map,
\* whichever way the id left the Map.
C12_RemovalStopsTimer ==
    \A c \in intervals : c \in Registry(RoomOfSocket(c))

\* C13: the step in which a ping throws clears the socket's timer and deletes
\* its id from the Map; from then on no ping is sent on the socket and its id is
\* in no Map.
C13_ProbeEviction ==
    [][\A c \in 1..admitted :
          /\ c \in probeFailed' \ probeFailed =>
                /\ c \notin intervals'
                /\ c \notin Range(connections'[RoomOfSocket(c)])
          /\ c \in probeFailed =>
                /\ probes'[c] = probes[c]
                /\ c \notin intervals'
                /\ \A r \in Paths : c \notin Range(connections'[r])]_vars

\* a ping threw on a socket and a later period elapsed without a ping
C13_Witness ==
    \E c \in probeFailed : ticks[c] > probes[c] /\ c \notin closed

\* C14: after every step the ids in a room's Map are the ids admitted to the
\* room minus the removed ones, and a close event of a socket that a send loop
\* or a failed ping had already removed changes no Map and raises nothing.
C14_Membership ==
    [][/\ \A r \in Paths :
             Range(connections'[r]) =
                {c \in 1..admitted' : RoomOf(connPath'[c]) = r}
                   \ (closed' \cup evicted' \cup probeFailed')
       /\ \A c \in closed' \ closed :
             c \in evicted \cup probeFailed =>
                connections' = connections /\ errors' = errors]_vars

\* a socket evicted by a send loop closed later, while its room held another socket
C14_Witness ==
    \E c \in closed \cap evicted : connections[RoomOfSocket(c)] # <<>>

\* C15: a step in which a forward fails (the call fails, its reply cannot be
\* read, or the path cannot be translated) sends nothing, changes no Map, and
\* the failure is the one logged by the forward's .catch.
C15_ForwardFailureSwallowed ==
    [][errors' # errors =>
          /\ \A e \in errors' \ errors : e.kind = "forward"
          /\ ~handled'.ran
          /\ connections' = connections]_vars

\* C16: the outbound calls that carry messages of one socket are issued in the
\* order in which the messages were received, each call carries the message it
\* was issued for, and no message has two calls.
C16_ForwardOrder ==
    \A i, j \in 1..Len(outbound) :
        /\ outbound[i].msg \in 1..Len(received)
        /\ received[outbound[i].msg].conn = outbound[i].conn
        /\ outbound[i].body = JSONStringify(Str(received[outbound[i].msg].data))
        /\ (i < j /\ outbound[i].conn = outbound[j].conn) =>
              outbound[i].msg < outbound[j].msg

\* the reply to a socket's second message is broadcast while the call for its
\* first message is still in flight
C16_Witness ==
    /\ handled.kind = "reply"
    /\ handled.ran
    /\ \E first \in inflight :
          /\ first < handled.call
          /\ outbound[first].conn = outbound[handled.call].conn

\* C17: a send loop calls send on exactly the sockets of the Map as it is when
\* the loop runs, whatever the Map was when the request or reply arrived, and
\* the Map changes only after the last send, by the removal of the sockets
\* whose send threw.
C17_SnapshotAtUse ==
    [][handled'.ran =>
          /\ handled'.before = connections[handled'.origin]
          /\ handled'.attempts = connections[handled'.origin]
          /\ connections' = [connections EXCEPT ![handled'.origin] =
                                Without(handled'.attempts, handled'.failing)]]_vars

\* while the body was awaited one socket was admitted, which got a send, and
\* one was removed, which got none
C17_Witness ==
    /\ handled.ran
    /\ \E c \in Range(handled.attempts) : c \notin Range(handled.arrival)
    /\ \E c \in Range(handled.arrival) : c \notin Range(handled.attempts)

\* C18: an outbound call is issued only for a message of a socket whose id is
\* in its room's Map when the message is received.
C18_OnlyRegisteredForwarded ==
    [][Len(outbound') > Len(outbound) =>
          LET c == outbound'[Len(outbound')].conn
          IN c \in Registry(RoomOfSocket(c))]_vars

\* C19: every socket id in a Map has its timer set.
C19_RegisteredHasTimer ==
    \A r \in Paths : Registry(r) \subseteq intervals

\* a room holds a socket with its timer after another socket of the room lost its own
C19_Witness ==
    \E c \in Admitted, d \in Removed :
        /\ c \in Registry(RoomOfSocket(c))
        /\ RoomOfSocket(d) = RoomOfSocket(c)
        /\ d \notin intervals
        /\ ticks[c] >= 1

\* C20: the step that answers a POST with 200 is the step in which its
\* handleResponse invocation leaves its await and ends: the invocation is no
\* longer pending, and unless the body was the sentinel its send loop has called
\* send on every socket of the Map and the sockets whose send threw are removed.
C20_ResponseAfterDelivery ==
    [][(resp'.method = "POST" /\ resp'.status = 200) =>
          LET job == [kind |-> "post", room |-> RoomOf(resp'.path), call |-> 0,
                      method |-> "POST", path |-> resp'.path,
                      arrival |-> handled'.arrival]
          IN /\ handled'.kind = "post"
             /\ handled'.origin = resp'.path
             /\ job \in pending
             /\ job \notin pending'
             /\ IF handled'.ran
                THEN /\ handled'.attempts = connections[resp'.path]
                     /\ Range(handled'.deadConnections) = handled'.failing
                     /\ connections'[resp'.path] =
                           Without(connections[resp'.path], handled'.failing)
                ELSE /\ SentinelPayload(handled'.payload)
                     /\ connections' = connections]_vars

\* a POST was answered 200 after a loop over two sockets, one of which threw
C20_Witness ==
    /\ resp.method = "POST"
    /\ resp.status = 200
    /\ Len(handled.attempts) = 2
    /\ Cardinality(handled.failing) = 1
    /\ Len(connections[resp.path]) = 1

=============================================================================
